---- MODULE Spec2Model ----
(***************************************************************************)
(* nanslice/util.py: the slice compositor (overlay_slice), its drawing     *)
(* wrapper (draw_slice) and center_of_mass.                                *)
(*                                                                         *)
(* Numbers are fixed point: the integer One stands for 1.0, so a sampled   *)
(* value, a threshold, a limit and a blend weight v stand for v / One.     *)
(* An RGB component c stands for c / (One * One), which keeps the convex   *)
(* combination of blend exact.  A numpy boolean is the number it is        *)
(* promoted to in arithmetic: False is 0 and True is One.                  *)
(***************************************************************************)
EXTENDS Integers, Sequences, FiniteSets, TLC

VARIABLES pc, args, ret, axis

vars == <<pc, args, ret, axis>>

\* Sample points per half voxel spacing: the slice grid lies between two
\* voxel centres, One = 2 * SubSteps fixed-point units apart.
SubSteps == 2

One == 2 * SubSteps

Half == SubSteps

\* Python's None: an absent volume, an option that was not given.
None == <<>>

\* ------------------------------------------------------------------ data

\* The slice grid: pixel x lies x / One of the way from voxel 1 to voxel 2,
\* never on a voxel centre and never on the midpoint.
Pixels == (1 .. (One - 1)) \ {SubSteps}

\* A volume is its two voxels along the line the slice grid lies on: all
\* zero, a ramp from 0 to 1, all one.
Volumes == {<<0, 0>>, <<0, One>>, <<One, One>>}

OptVolumes == Volumes \cup {None}

\* if img: an image object is truthy, None is falsy.
Present(img) == img /= None

\* if options.color_mask_thresh: None and 0.0 are both falsy.
Truthy(opt) == opt /= None /\ opt[1] /= 0

\* sl.sample(img, order): nearest voxel for order 0, linear interpolation
\* between the two voxels for order 1.
sample(img, order) ==
  [x \in Pixels |->
     IF order = 0
       THEN (IF x < SubSteps THEN img[1] ELSE img[2])
       ELSE (img[1] * (One - x) + img[2] * x) \div One]

\* ------------------------------------------------------------- colorizer

\* A limit pair is well formed when low < high.
LimitsOK(lims) == lims[1] < lims[2]

Clip(v) == IF v < 0 THEN 0 ELSE IF v > One THEN One ELSE v

\* image.scale_clip(field, lims): lims[0] -> 0, lims[1] -> 1, clipped.
scale_clip(field, lims) ==
  [x \in DOMAIN field |->
     Clip(((field[x] - lims[1]) * One) \div (lims[2] - lims[1]))]

\* The colormap registry: a named lookup from [0, 1] to RGB.
Palette(name, n) ==
  IF name = "gray"
    THEN <<n * One, n * One, n * One>>
    ELSE <<n * One, 0, (One - n) * One>>

\* image.colorize(field, cmap, lims)
colorize(field, cmap, lims) ==
  LET norm == scale_clip(field, lims)
  IN  [x \in DOMAIN field |-> Palette(cmap, norm[x])]

Background == <<0, 0, 0>>

\* image.mask(rgb, mask_field): background where the mask is zero/False,
\* the pixel itself elsewhere.
mask(rgb, mask_field) ==
  [x \in DOMAIN rgb |-> IF mask_field[x] = 0 THEN Background ELSE rgb[x]]

\* image.blend(under, over, alpha) = under * (1 - alpha) + over * alpha
blend(under, over, alpha) ==
  [x \in DOMAIN under |->
     [c \in 1 .. 3 |->
        (under[x][c] * (One - alpha[x]) + over[x][c] * alpha[x]) \div One]]

\* numpy's field > thresh, element-wise, as 0 / One.
Greater(field, thresh) ==
  [x \in DOMAIN field |-> IF field[x] > thresh THEN One ELSE 0]

\* np.ones_like(field)
ones_like(field) == [x \in DOMAIN field |-> One]

\* ------------------------------------------------------------ compositor

\* The outcome of a call: what it returned or raised, the volumes it
\* sampled in order, and the locals it had assigned when it ended.
Outcome(kind, sampled, sl_base, sl_color_mask, weight, sl_blend, sl_final) ==
  [kind |-> kind, sampled |-> sampled, sl_base |-> sl_base,
   sl_color_mask |-> sl_color_mask, weight |-> weight,
   sl_blend |-> sl_blend, sl_final |-> sl_final]

\* sl.sample(img_color, ...) * options.color_scale
ScaledColor(a) ==
  [x \in Pixels |-> sample(a.img_color, a.interp_order)[x] * a.color_scale]

\* ColorMask without its final else branch: with neither a color-mask
\* volume nor a threshold the local stays unassigned.
ColorMaskNoElse(a, sl_color) ==
  IF Present(a.img_color_mask)
    THEN (IF Truthy(a.color_mask_thresh)
            THEN Greater(sample(a.img_color_mask, a.interp_order),
                         a.color_mask_thresh[1])
            ELSE sample(a.img_color_mask, a.interp_order))
    ELSE IF Truthy(a.color_mask_thresh)
      THEN Greater(sl_color, a.color_mask_thresh[1])
      ELSE None

\* The color mask of a call with a color volume.  None stands for a local
\* that no branch assigned.
ColorMask(a, sl_color) ==
  IF Present(a.img_color_mask)
    THEN (IF Truthy(a.color_mask_thresh)
            THEN Greater(sample(a.img_color_mask, a.interp_order),
                         a.color_mask_thresh[1])
            ELSE sample(a.img_color_mask, a.interp_order))
    ELSE IF Truthy(a.color_mask_thresh)
      THEN Greater(sl_color, a.color_mask_thresh[1])
      ELSE ones_like(sl_color)

\* BlendWeight blending at full weight when there is no alpha volume.
BlendWeightOnes(a, sl_color_mask) ==
  IF Present(a.img_alpha)
    THEN scale_clip(sample(a.img_alpha, a.interp_order), a.alpha_lims)
    ELSE ones_like(sl_color_mask)

\* BlendWeight with the alpha field gated by the color mask.
BlendWeightMasked(a, sl_color_mask) ==
  IF Present(a.img_alpha)
    THEN [x \in Pixels |->
            IF sl_color_mask[x] = 0
              THEN 0
              ELSE scale_clip(sample(a.img_alpha, a.interp_order),
                              a.alpha_lims)[x]]
    ELSE sl_color_mask

\* The third argument of image.blend: the scaled alpha field when an alpha
\* volume is present, the color mask itself otherwise.
BlendWeight(a, sl_color_mask) ==
  IF Present(a.img_alpha)
    THEN scale_clip(sample(a.img_alpha, a.interp_order), a.alpha_lims)
    ELSE sl_color_mask

\* FinalStage with the mask volume ignored.
FinalStageNoMask(a, sl_blend) == sl_blend

\* The mask stage, applied to the blended slice.
FinalStage(a, sl_blend) ==
  IF Present(a.img_mask)
    THEN mask(sl_blend, sample(a.img_mask, a.interp_order))
    ELSE sl_blend

\* The volumes a call samples after the base, in order, up to the blend.
ColorSamples(a) ==
  <<"color">>
    \o (IF Present(a.img_color_mask) THEN <<"color_mask">> ELSE <<>>)

MaskSamples(a) == IF Present(a.img_mask) THEN <<"mask">> ELSE <<>>

\* The color branch: returns the outcome of the whole call.
ColorBranch(a, sl_base) ==
  LET sl_color0 == ScaledColor(a)
      sl_color_mask == ColorMask(a, sl_color0)
      tr == <<"base">> \o ColorSamples(a)
  IN  IF sl_color_mask = None
        THEN Outcome("UnboundLocalError", tr, sl_base, None, None, None, None)
      ELSE IF ~LimitsOK(a.color_lims)
        THEN Outcome("NumericError", tr, sl_base, sl_color_mask, None, None, None)
      ELSE
        LET sl_color == mask(colorize(sl_color0, a.color_map, a.color_lims),
                             sl_color_mask)
            tr2 == tr \o (IF Present(a.img_alpha) THEN <<"alpha">> ELSE <<>>)
        IN  IF Present(a.img_alpha) /\ ~LimitsOK(a.alpha_lims)
              THEN Outcome("NumericError", tr2, sl_base, sl_color_mask,
                           None, None, None)
              ELSE
                LET weight == BlendWeight(a, sl_color_mask)
                    sl_blend == blend(sl_base, sl_color, weight)
                IN  Outcome("image", tr2 \o MaskSamples(a), sl_base,
                            sl_color_mask, weight, sl_blend,
                            FinalStage(a, sl_blend))

\* BaseLayer colorized through options.color_map instead of 'gray'.
BaseLayerColorMap(a) ==
  colorize(sample(a.img_base, a.interp_order), a.color_map, a.window)

\* sl_base: the base volume, sampled and colorized in gray over the window.
BaseLayer(a) ==
  colorize(sample(a.img_base, a.interp_order), "gray", a.window)

\* BaseOnlyBlend fading the base by the alpha volume although there is no
\* color layer.
BaseOnlyBlendAlpha(a, sl_base) ==
  IF Present(a.img_alpha)
    THEN blend(sl_base, [x \in Pixels |-> Background],
               sample(a.img_alpha, a.interp_order))
    ELSE sl_base

\* else: sl_blend = sl_base
BaseOnlyBlend(a, sl_base) == sl_base

overlay_slice(a) ==
  IF ~LimitsOK(a.window)
    THEN Outcome("NumericError", <<"base">>, None, None, None, None, None)
    ELSE
      LET sl_base == BaseLayer(a)
      IN  IF Present(a.img_color)
            THEN ColorBranch(a, sl_base)
            ELSE LET sl_blend == BaseOnlyBlend(a, sl_base)
                 IN  Outcome("image", <<"base">> \o MaskSamples(a), sl_base,
                             None, None, sl_blend, FinalStage(a, sl_blend))

\* ---------------------------------------------------------------- inputs

InterpOrders == {0, 1}

ColorMaps == {"RdYlBu_r", "gray"}

Windows == {<<0, One>>, <<One, 0>>}

ColorLims == {<<0, One>>, <<One, One>>}

AlphaLims == {<<Half, One>>, <<One, Half>>}

ColorScales == {1, 2}

\* --color_mask_thresh: not given, 0, 0.5 and -0.5
Thresholds == {None, <<0>>, <<Half>>, <<0 - Half>>}

OverlayArgs ==
  [interp_order : InterpOrders, color_map : ColorMaps,
   color_lims : ColorLims, color_scale : ColorScales,
   color_mask_thresh : Thresholds, alpha_lims : AlphaLims,
   window : Windows, img_base : Volumes, img_mask : OptVolumes,
   img_color : OptVolumes, img_color_mask : OptVolumes,
   img_alpha : OptVolumes]

NoOutcome == Outcome("none", <<>>, None, None, None, None, None)

\* ----------------------------------------------------------- overlay_slice

Init ==
  /\ pc = "call"
  /\ args \in OverlayArgs
  /\ ret = NoOutcome
  /\ axis = <<>>

OverlaySlice ==
  /\ pc = "call"
  /\ ret' = overlay_slice(args)
  /\ pc' = "done"
  /\ UNCHANGED <<args, axis>>

Next == OverlaySlice

Spec == Init /\ [][Next]_vars

TypeOK == pc \in {"call", "done"}

\* ---------------------------------------------------- claims: compositor

Done == pc = "done"

Returned == Done /\ ret.kind = "image"

\* The sampled, scaled color field of the call.
ColorField == ScaledColor(args)

BaseOnly ==
  /\ ~Present(args.img_color)
  /\ ~Present(args.img_mask)
  /\ ~Present(args.img_color_mask)
  /\ ~Present(args.img_alpha)

\* C1: with a base volume only, a call with a well-formed window returns,
\* at every pixel, colorize(sample(base, interp_order), 'gray', window),
\* whatever the color_* and alpha_lims options are.
C1_BaseOnlyIsGray ==
  (Done /\ BaseOnly /\ LimitsOK(args.window)) =>
    /\ ret.kind = "image"
    /\ \A x \in Pixels :
         ret.sl_final[x] =
           colorize(sample(args.img_base, args.interp_order), "gray",
                    args.window)[x]

C1_Witness ==
  /\ Returned
  /\ BaseOnly
  /\ args.color_mask_thresh = <<Half>>
  /\ ~LimitsOK(args.color_lims)
  /\ \E x \in Pixels : ret.sl_final[x] /= Background

C2_Case ==
  /\ Returned
  /\ Present(args.img_color)
  /\ args.color_mask_thresh = <<Half>>
  /\ ~Present(args.img_color_mask)
  /\ ~Present(args.img_alpha)
  /\ ~Present(args.img_mask)

\* C2: color volume, color_mask_thresh = 0.5, no color-mask, alpha or mask
\* volume: a pixel whose color value times color_scale is > 0.5 shows the
\* colorized color value (blend weight 1), every other pixel the base layer.
C2_ThresholdCutout ==
  C2_Case =>
    \A x \in Pixels :
      /\ ret.weight[x] \in {0, One}
      /\ IF ColorField[x] > Half
           THEN /\ ret.weight[x] = One
                /\ ret.sl_final[x] =
                     colorize(ColorField, args.color_map, args.color_lims)[x]
           ELSE ret.sl_final[x] = ret.sl_base[x]

C2_Witness ==
  /\ C2_Case
  /\ \E x, y \in Pixels :
       /\ ColorField[x] > Half
       /\ ColorField[y] <= Half
       /\ ret.sl_final[x] /= ret.sl_base[x]
       /\ ret.sl_base[y] /= Background

C3_Case == Returned /\ Present(args.img_color) /\ Present(args.img_alpha)

\* C3: with a color and an alpha volume, the blend weight at every pixel is
\* scale_clip(sample(alpha), alpha_lims), and it is the same for every
\* color_mask_thresh and every present or absent color-mask volume.
C3_AlphaIsWeight ==
  C3_Case =>
    /\ \A x \in Pixels :
         ret.weight[x] =
           scale_clip(sample(args.img_alpha, args.interp_order),
                      args.alpha_lims)[x]
    /\ \A th \in Thresholds, cm \in OptVolumes :
         LET other == overlay_slice([args EXCEPT !.color_mask_thresh = th,
                                                 !.img_color_mask = cm])
         IN  other.kind = "image" /\ other.weight = ret.weight

\* A pixel the threshold masks out and the alpha field weighs in between.
C3_Witness ==
  /\ C3_Case
  /\ args.color_mask_thresh = <<Half>>
  /\ \E x \in Pixels :
       ret.sl_color_mask[x] = 0 /\ ret.weight[x] \notin {0, One}

\* The limit pairs the taken path hands to colorize or scale_clip.
UsedLimitsOK(a) ==
  /\ LimitsOK(a.window)
  /\ Present(a.img_color) => LimitsOK(a.color_lims)
  /\ (Present(a.img_color) /\ Present(a.img_alpha)) => LimitsOK(a.alpha_lims)

\* C5: for every combination of present/absent color, color-mask, alpha and
\* mask volume and given/not-given threshold no unassigned local is read,
\* the call returns an image whenever the limit pairs it uses are well
\* formed, and an absent layer's stage is the identity.
C5_MissingLayersAreNoOps ==
  Done =>
    /\ ret.kind /= "UnboundLocalError"
    /\ UsedLimitsOK(args) => ret.kind = "image"
    /\ (ret.kind = "image" /\ ~Present(args.img_color)) =>
         ret.sl_blend = ret.sl_base
    /\ (ret.kind = "image" /\ ~Present(args.img_mask)) =>
         ret.sl_final = ret.sl_blend

\* The path where neither a color-mask volume nor a threshold sets the mask.
C5_Witness ==
  /\ Returned
  /\ Present(args.img_color)
  /\ ~Present(args.img_color_mask)
  /\ args.color_mask_thresh = None
  /\ ~Present(args.img_alpha)
  /\ ~Present(args.img_mask)
  /\ ret.sl_color_mask = ones_like(ColorField)

\* C6 (as claimed): a window, color_lims or alpha_lims pair with low >= high
\* ends the call in a NumericError.
C6_MalformedLimitsFail ==
  (Done /\ (~LimitsOK(args.window) \/ ~LimitsOK(args.color_lims)
              \/ ~LimitsOK(args.alpha_lims))) =>
    ret.kind = "NumericError"

\* The mask the claim describes: binary whenever a threshold is given.
ClaimedColorMask(a) ==
  IF a.color_mask_thresh /= None
    THEN (IF Present(a.img_color_mask)
            THEN Greater(sample(a.img_color_mask, a.interp_order),
                         a.color_mask_thresh[1])
            ELSE Greater(ScaledColor(a), a.color_mask_thresh[1]))
    ELSE (IF Present(a.img_color_mask)
            THEN sample(a.img_color_mask, a.interp_order)
            ELSE ones_like(ScaledColor(a)))

\* C7 (as claimed): with a color volume, a given color_mask_thresh of any
\* value, 0 included, makes the color mask binary: sampled color mask >
\* threshold, or color * color_scale > threshold without a color-mask volume.
C7_GivenThresholdBinarizes ==
  (Done /\ Present(args.img_color) /\ ret.sl_color_mask /= None) =>
    ret.sl_color_mask = ClaimedColorMask(args)

C8_Case == Returned /\ Present(args.img_mask)

\* C8: with a mask volume the mask is sampled last and applied to the
\* blended slice: a pixel where the sampled mask is zero is background, a
\* pixel where it is one keeps its blended value.
C8_MaskIsLast ==
  C8_Case =>
    /\ ret.sampled[Len(ret.sampled)] = "mask"
    /\ \A x \in Pixels :
         LET m == sample(args.img_mask, args.interp_order)[x]
         IN  /\ m = 0 => ret.sl_final[x] = Background
             /\ m = One => ret.sl_final[x] = ret.sl_blend[x]

C8_Witness ==
  /\ C8_Case
  /\ Present(args.img_color)
  /\ Present(args.img_alpha)
  /\ \E x, y \in Pixels :
       /\ sample(args.img_mask, args.interp_order)[x] = 0
       /\ ret.sl_blend[x] /= Background
       /\ sample(args.img_mask, args.interp_order)[y] = One
       /\ ret.sl_final[y] /= Background
       /\ ret.sl_final[y] /= ret.sl_base[y]

\* The same call with one of the arguments the claim lets vary replaced.
C10_Variants ==
  {[args EXCEPT !.img_color_mask = v] : v \in OptVolumes}
    \cup {[args EXCEPT !.img_alpha = v] : v \in OptVolumes}
    \cup {[args EXCEPT !.color_map = v] : v \in ColorMaps}
    \cup {[args EXCEPT !.color_lims = v] : v \in ColorLims}
    \cup {[args EXCEPT !.color_scale = v] : v \in ColorScales}
    \cup {[args EXCEPT !.color_mask_thresh = v] : v \in Thresholds}
    \cup {[args EXCEPT !.alpha_lims = v] : v \in AlphaLims}

\* C10: without a color volume the call samples neither the color-mask nor
\* the alpha volume, and replacing the color-mask volume, the alpha volume
\* or any color_* / alpha_lims option leaves its result unchanged.
C10_NoColorIgnoresOverlay ==
  (Done /\ ~Present(args.img_color)) =>
    /\ \A i \in 1 .. Len(ret.sampled) :
         ret.sampled[i] \notin {"color", "color_mask", "alpha"}
    /\ \A b \in C10_Variants :
         LET other == overlay_slice(b)
         IN  other.kind = ret.kind /\ other.sl_final = ret.sl_final

C10_Witness ==
  /\ Returned
  /\ ~Present(args.img_color)
  /\ Present(args.img_color_mask)
  /\ Present(args.img_alpha)
  /\ Present(args.img_mask)
  /\ args.color_mask_thresh = <<Half>>
  /\ \E x \in Pixels : ret.sl_final[x] /= Background

\* ------------------------------------------------------------ draw_slice

\* A call on the matplotlib axis.
AxisCall(name, data, levels) ==
  [call |-> name, data |-> data, levels |-> levels]

\* ContourStraddles with only the first of its two tests.
ContourOneSided(field, level) == \E x \in DOMAIN field : field[x] < level

\* (sliced_contour < level).any() and (sliced_contour > level).any()
ContourStraddles(field, level) ==
  /\ \E x \in DOMAIN field : field[x] < level
  /\ \E x \in DOMAIN field : field[x] > level

\* The contour stage: the axis calls it adds.
ContourCalls(contour_img, contour_levels) ==
  IF Present(contour_img)
    THEN LET sliced_contour == sample(contour_img, 1)
         IN  IF ContourStraddles(sliced_contour, contour_levels[1])
               THEN <<AxisCall("contour", sliced_contour, contour_levels)>>
               ELSE <<>>
    ELSE <<>>

\* draw_slice: what it leaves on the axis and how it ends.  An exception of
\* overlay_slice propagates before anything is drawn.
draw_slice(d) ==
  LET sliced == overlay_slice(d.overlay)
  IN  IF sliced.kind /= "image"
        THEN [kind |-> sliced.kind, calls |-> <<>>]
        ELSE [kind |-> "returned",
              calls |-> <<AxisCall("imshow", sliced.sl_final, <<>>),
                          AxisCall("axis", "off", <<>>)>>
                        \o ContourCalls(d.contour_img, d.contour_levels)]

\* The options as the command line defaults leave them.
DrawOverlayArgs ==
  [interp_order : InterpOrders, color_map : {"RdYlBu_r"},
   color_lims : {<<0, One>>}, color_scale : {1},
   color_mask_thresh : {None}, alpha_lims : {<<Half, One>>},
   window : Windows, img_base : Volumes, img_mask : OptVolumes,
   img_color : OptVolumes, img_color_mask : {None},
   img_alpha : OptVolumes]

ContourLevels == {<<0>>, <<Half>>, <<One>>, <<Half, One>>}

DrawArgs ==
  [overlay : DrawOverlayArgs, contour_img : OptVolumes,
   contour_levels : ContourLevels]

InitDraw ==
  /\ pc = "call"
  /\ args \in DrawArgs
  /\ ret = NoOutcome
  /\ axis = <<>>

DrawSlice ==
  /\ pc = "call"
  /\ LET r == draw_slice(args)
     IN  /\ axis' = axis \o r.calls
         /\ ret' = [NoOutcome EXCEPT !.kind = r.kind]
  /\ pc' = "done"
  /\ UNCHANGED args

NextDraw == DrawSlice

SpecDraw == InitDraw /\ [][NextDraw]_vars

\* The positions on the axis of the calls named name.
CallsOf(name) == {i \in 1 .. Len(axis) : axis[i].call = name}

\* The contour field has a sample strictly below and one strictly above
\* the first level.
C9_Straddles ==
  /\ Present(args.contour_img)
  /\ \E x, y \in Pixels :
       /\ sample(args.contour_img, 1)[x] < args.contour_levels[1]
       /\ sample(args.contour_img, 1)[y] > args.contour_levels[1]

\* C9: a draw_slice whose compositing succeeds emits exactly one image draw
\* call, of the composited slice, and after it a contour call exactly when
\* a contour image is given and its field straddles the level; otherwise it
\* emits no contour call, and it raises nothing in either case.  A call
\* whose compositing raises draws nothing.
C9_OneImageThenContour ==
  Done =>
    IF overlay_slice(args.overlay).kind = "image"
      THEN /\ ret.kind = "returned"
           /\ CallsOf("imshow") = {1}
           /\ axis[1].data = overlay_slice(args.overlay).sl_final
           /\ Cardinality(CallsOf("contour")) = (IF C9_Straddles THEN 1 ELSE 0)
           /\ \A i \in CallsOf("contour") :
                /\ i > 1
                /\ axis[i].data = sample(args.contour_img, 1)
                /\ axis[i].levels = args.contour_levels
      ELSE axis = <<>> /\ ret.kind = overlay_slice(args.overlay).kind

C9_Witness ==
  /\ Done
  /\ ret.kind = "returned"
  /\ C9_Straddles
  /\ Present(args.overlay.img_color)
  /\ axis[Len(axis)].call = "contour"

\* A contour image whose field lies on one side of the level: nothing drawn.
C9_WitnessSkipped ==
  /\ Done
  /\ ret.kind = "returned"
  /\ Present(args.contour_img)
  /\ \A x \in Pixels :
       sample(args.contour_img, 1)[x] > args.contour_levels[1]
  /\ CallsOf("contour") = {}

\* -------------------------------------------------------- center_of_mass

\* Voxels per axis of the volumes center_of_mass is applied to.
CoMDim == 2

Axis == 0 .. (CoMDim - 1)

Index3 == Axis \X Axis \X Axis

RECURSIVE SumOver(_, _)
\* np.sum of data over the index set S
SumOver(data, S) ==
  IF S = {} THEN 0
  ELSE LET i == CHOOSE j \in S : TRUE
       IN  data[i] + SumOver(data, S \ {i})

\* np.sum(data, axis=the two other axes)[n]: the total of the slab whose
\* index along axis ax is n.
Marginal(data, ax, n) == SumOver(data, {i \in Index3 : i[ax] = n})

\* np.argmax: the first index of the largest marginal.
ArgMax(data, ax) ==
  CHOOSE n \in Axis :
    /\ \A m \in Axis : Marginal(data, ax, m) <= Marginal(data, ax, n)
    /\ \A m \in Axis : m < n => Marginal(data, ax, m) < Marginal(data, ax, n)

\* np.dot(affine, v): a 4x4 matrix times a 4-vector.
Dot(affine, v) ==
  [r \in 1 .. 4 |->
     affine[r][1] * v[1] + affine[r][2] * v[2] + affine[r][3] * v[3]
       + affine[r][4] * v[4]]

center_of_mass(img) ==
  LET idx0 == ArgMax(img.data, 1)
      idx1 == ArgMax(img.data, 2)
      idx2 == ArgMax(img.data, 3)
  IN  Dot(img.affine, <<idx0, idx1, idx2, 1>>)

\* Volumes with at most two nonzero voxels, of either sign.
CoMVolumes ==
  {[i \in Index3 |-> IF i = p THEN v ELSE IF i = q THEN w ELSE 0] :
     p \in Index3, q \in Index3, v \in {-1, 0, 1}, w \in {-1, 0, 1}}

\* Voxel-to-physical transforms: the identity, an anisotropic scaling with
\* an offset, a flip with swapped axes.
Affines ==
  { <<<<1, 0, 0, 0>>, <<0, 1, 0, 0>>, <<0, 0, 1, 0>>, <<0, 0, 0, 1>>>>,
    <<<<2, 0, 0, 1>>, <<0, 3, 0, -1>>, <<0, 0, 1, 5>>, <<0, 0, 0, 1>>>>,
    <<<<0, -1, 0, 4>>, <<1, 0, 0, 0>>, <<0, 0, 2, -3>>, <<0, 0, 0, 1>>>> }

InitCoM ==
  /\ pc = "call"
  /\ args \in [data : CoMVolumes, affine : Affines]
  /\ ret = NoOutcome
  /\ axis = <<>>

CenterOfMass ==
  /\ pc = "call"
  /\ ret' = [kind |-> "point", phys |-> center_of_mass(args)]
  /\ pc' = "done"
  /\ UNCHANGED <<args, axis>>

NextCoM == CenterOfMass

SpecCoM == InitCoM /\ [][NextCoM]_vars

NonZero(data) == {i \in Index3 : data[i] /= 0}

\* The physical-space point of voxel i: (i, 1) through the affine, the
\* homogeneous coordinate dropped.
PhysicalPoint(affine, i) ==
  LET h == Dot(affine, <<i[1], i[2], i[3], 1>>)
  IN  <<h[1], h[2], h[3]>>

\* C4 (as claimed): for a volume with exactly one nonzero voxel, of either
\* sign, center_of_mass returns that voxel's physical-space point, three
\* components.
C4_SingleVoxelPoint ==
  (Done /\ Cardinality(NonZero(args.data)) = 1) =>
    \A i \in NonZero(args.data) :
      ret.phys = PhysicalPoint(args.affine, i)

\* The same without the collapse to three components: the first three
\* components of what is returned are the voxel's point.
C4_SingleVoxelFirstThree ==
  (Done /\ Cardinality(NonZero(args.data)) = 1) =>
    \A i \in NonZero(args.data) :
      <<ret.phys[1], ret.phys[2], ret.phys[3]>>
        = PhysicalPoint(args.affine, i)

\* The same for a positive voxel only.
C4_PositiveVoxelFirstThree ==
  (Done /\ Cardinality(NonZero(args.data)) = 1) =>
    \A i \in NonZero(args.data) :
      args.data[i] > 0 =>
        <<ret.phys[1], ret.phys[2], ret.phys[3]>>
          = PhysicalPoint(args.affine, i)

====
